---------------------------- MODULE Spec2Model ----------------------------
(***************************************************************************)
(* Model of the pgxscan client (src/client.go, src/config.go,              *)
(* src/unnamed/part_000): the constructor New with Config.Valid and the    *)
(* connection string, the transaction coordinator InTx, the context        *)
(* carrier contextWithTx/txFromContext, the dual-mode executors            *)
(* (getInTx, ...) and the facade methods Get/Select/Exec/Query/QueryRow/   *)
(* Ping/Close.  Spec is the client in use, SpecNew its construction,       *)
(* SpecBlocking InTx on a pool whose Acquire waits and does not fail.      *)
(*                                                                         *)
(* A context is an immutable chain, as in Go: the sequence of the nodes    *)
(* from the root (context.Background(), the empty chain) to the context    *)
(* itself.  Deriving a context appends a node and leaves the parent as it  *)
(* was.  InTx invocations run concurrently, or nested when a callback      *)
(* calls InTx; one more goroutine issues the data operations, one at a     *)
(* time.  The isolation level is handed to BeginTx as it is and decides    *)
(* nothing in the client, so it is left out.                               *)
(***************************************************************************)
EXTENDS Integers, Sequences, FiniteSets

\* ------------------------------------------------------------------ bounds
MaxCalls == 2       \* InTx invocations in one behaviour
PoolSize == 2       \* connections of the pool
MaxDerive == 1      \* contexts the caller derives on top of one it was given

\* --------------------------------------------------------------- constants
DefaultTimeout == 5                  \* seconds, New: time.Second * 5
QueryTimeoutConfigs == {-1, 0, 2}    \* Config.QueryTimeout values tried (seconds)

VARIABLES
    newCall,        \* the invocation of New that makes the client
    config,         \* Config.QueryTimeout, as New was given it
    queryTimeout,   \* client.queryTimeout
    calls,          \* the InTx invocations, in the order they were called
    connHolder,     \* dbPool: connection -> invocation holding it (0: idle)
    lastOp          \* the facade call that returned last, until its caller
                    \* has taken the result (NoOp)

vars == <<newCall, config, queryTimeout, calls, connHolder, lastOp>>

\* ------------------------------------------------------------------ errors
\* An error value: its message (a sequence of parts) and the set of sentinel
\* errors errors.Is finds in its Unwrap chain.  NilErr is Go's nil error.
NilErr == [text |-> <<>>, is |-> {}]

NewError(msg) == [text |-> <<msg>>, is |-> {msg}]

\* fmt.Errorf(prefix + "%v", err): the message without the wrapped error
ErrorfW_V(prefix, err) == [text |-> <<prefix>> \o err.text, is |-> {}]

\* fmt.Errorf(prefix + "%w", err)
ErrorfW(prefix, err) == [text |-> <<prefix>> \o err.text, is |-> err.is]

ErrRecordsNotFound == NewError("records not found")
ErrNoRows == NewError("no rows in result set")
ErrDeadlineExceeded == NewError("context deadline exceeded")
ErrMultipleRows == NewError("expected 1 row, got 2")
ErrClosedPool == NewError("closed pool")
ErrApp == NewError("application error")
ErrBeginFailed == NewError("begin failed")
ErrTxClosed == NewError("tx is closed")
ErrCommitFailed == NewError("commit failed")

\* what the row mapper (scanApi.Get / scanApi.Select) can return
MapperErrs ==
    {NilErr, ErrNoRows, ErrorfW("scanning one: ", ErrNoRows),
     ErrMultipleRows, ErrDeadlineExceeded}
\* what Exec / Query / QueryRow / Ping of a row source can return
ExecErrs == {NilErr, ErrDeadlineExceeded}
\* what dbPool.Acquire can fail with
AcquireErrs == {ErrClosedPool, ErrDeadlineExceeded}
\* what the callback itself can fail with
CallbackErrs == {ErrApp, ErrDeadlineExceeded}
\* what conn.BeginTx, tx.Rollback and tx.Commit can fail with: a failure of
\* their own, or the context InTx hands them being done
BeginErrs == {ErrBeginFailed, ErrDeadlineExceeded}
RollbackErrs == {ErrTxClosed, ErrDeadlineExceeded}
CommitErrs == {ErrCommitFailed, ErrDeadlineExceeded}

\* pgxscan.NotFound(err): errors.Is against the mapper's not-found sentinel
NotFound(err) == "no rows in result set" \in err.is

\* ---------------------------------------------------------------- contexts
\* A node carries the value stored under txCtxKey (0: none) and the timeout
\* it was derived with (0: none).
Background == <<>>

\* contextWithTx that keeps the transaction a context already carries
contextWithTx_KeepAmbient(ctx, tx) ==
    IF \E k \in 1..Len(ctx) : ctx[k].tx # 0
    THEN ctx
    ELSE Append(ctx, [tx |-> tx, timeout |-> 0])

\* context.WithValue(ctx, txCtxKey, tx)
contextWithTx(ctx, tx) == Append(ctx, [tx |-> tx, timeout |-> 0])

\* context.WithTimeout(ctx, d)
WithTimeout(ctx, d) == Append(ctx, [tx |-> 0, timeout |-> d])

\* a context the caller derives itself (WithCancel, WithValue of its own key)
RECURSIVE Derive(_, _)
Derive(ctx, n) ==
    IF n = 0 THEN ctx ELSE Derive(Append(ctx, [tx |-> 0, timeout |-> 0]), n - 1)

\* ctx.Value(txCtxKey): the nearest value walking from the context to the root
RECURSIVE Value(_)
Value(ctx) ==
    IF ctx = <<>> THEN 0
    ELSE IF ctx[Len(ctx)].tx # 0 THEN ctx[Len(ctx)].tx
    ELSE Value(SubSeq(ctx, 1, Len(ctx) - 1))

\* txFromContext reading the value of the context itself, not of its ancestors
txFromContext_NoWalk(ctx) ==
    IF ctx = <<>> THEN 0 ELSE ctx[Len(ctx)].tx

\* txFromContext falling back on a transaction that is open somewhere
txFromContext_Ambient(ctx) ==
    IF Value(ctx) # 0 THEN Value(ctx)
    ELSE IF \E i \in DOMAIN calls : calls[i].pc = "running"
         THEN CHOOSE i \in DOMAIN calls : calls[i].pc = "running"
         ELSE 0

\* txFromContext reading a field of the client that InTx sets, in place of
\* the context: the transaction of the latest callback that is running
txFromContext_ClientField(ctx) ==
    IF \E i \in DOMAIN calls : calls[i].pc = "running"
    THEN CHOOSE i \in DOMAIN calls :
            /\ calls[i].pc = "running"
            /\ \A j \in DOMAIN calls : calls[j].pc = "running" => j <= i
    ELSE Value(ctx)

\* txFromContext: 0 stands for the nil pgx.Tx
txFromContext(ctx) == Value(ctx)

\* ---------------------------------------------------- dual-mode executors
\* Each executor hands the operation to the transaction of the context when
\* there is one, otherwise to the pool (target 0).  err is what the row
\* source / row mapper answers.
getInTx(ctx, err) == [target |-> txFromContext(ctx), err |-> err]

selectInTx(ctx, err) == [target |-> txFromContext(ctx), err |-> err]

execInTx(ctx, err) == [target |-> txFromContext(ctx), err |-> err]

queryInTx(ctx, err) == [target |-> txFromContext(ctx), err |-> err]

queryRowsInTx(ctx, err) == [target |-> txFromContext(ctx), err |-> err]

\* -------------------------------------------------------------------- InTx
\* One InTx invocation.  pc: "acquiring" (waiting in dbPool.Acquire),
\* "running" (in the callback f), "done" (at its return), "returned" (the
\* frame is gone).  handed is the context InTx gives to Acquire and BeginTx.
\* The counters count the calls made on the collaborators (Acquire, BeginTx,
\* f, Commit, Rollback, Release); acqErr, beginErr, fErr and endErr are what
\* Acquire, BeginTx, f and Commit or Rollback answered.  panicked: f did not
\* return, it panicked, and InTx was left by the panic.
InTxEnter(ctx, caller) ==
    [pc |-> "acquiring", ctx |-> ctx, caller |-> caller, handed |-> ctx,
     conn |-> 0, deferred |-> FALSE, tx |-> 0, ctxWithTx |-> Background,
     acquires |-> 0, begins |-> 0, fCalls |-> 0, commits |-> 0,
     rollbacks |-> 0, releases |-> 0, panicked |-> FALSE,
     acqErr |-> NilErr, beginErr |-> NilErr, fErr |-> NilErr,
     endErr |-> NilErr, result |-> NilErr]

\* a return that runs no deferred conn.Release()
Return_NoRelease(call, err) == [call EXCEPT !.pc = "done", !.result = err]

\* return err, running the deferred conn.Release() when it was registered
Return(call, err) ==
    [call EXCEPT !.pc = "done", !.result = err,
                 !.releases = IF call.deferred THEN @ + 1 ELSE @]

\* BeginTx whose error is not looked at: f is entered all the same
AfterBegin_IgnoreErr(call, tx, err) ==
    [call EXCEPT !.pc = "running", !.begins = @ + 1, !.beginErr = err,
                 !.tx = tx, !.ctxWithTx = contextWithTx(call.ctx, tx),
                 !.fCalls = @ + 1]

\* conn.Release() called as soon as the transaction has begun, not deferred
\* to the return
AfterBegin_ReleaseEarly(call, tx, err) ==
    IF err # NilErr
    THEN Return([call EXCEPT !.begins = @ + 1, !.beginErr = err],
                ErrorfW("starting transaction: ", err))
    ELSE [call EXCEPT !.pc = "running", !.begins = @ + 1, !.tx = tx,
                      !.ctxWithTx = contextWithTx(call.ctx, tx),
                      !.fCalls = @ + 1, !.releases = @ + 1]

\* tx, err := conn.BeginTx(ctx, ...); ctxWithTx := contextWithTx(ctx, tx);
\* f(ctxWithTx) is entered.  tx is the transaction BeginTx opens.
AfterBegin(call, tx, err) ==
    IF err # NilErr
    THEN Return([call EXCEPT !.begins = @ + 1, !.beginErr = err],
                ErrorfW("starting transaction: ", err))
    ELSE [call EXCEPT !.pc = "running", !.begins = @ + 1, !.tx = tx,
                      !.ctxWithTx = contextWithTx(call.ctx, tx),
                      !.fCalls = @ + 1]

\* Acquire with the defer written before the error check
AfterAcquire_DeferFirst(call, conn, err, tx, beginErr) ==
    IF err # NilErr
    THEN Return([call EXCEPT !.acquires = @ + 1, !.acqErr = err,
                             !.deferred = TRUE],
                ErrorfW("acquiring connection: ", err))
    ELSE AfterBegin([call EXCEPT !.acquires = @ + 1, !.conn = conn,
                                 !.deferred = TRUE],
                    tx, beginErr)

\* conn, err := c.dbPool.Acquire(ctx); on success defer conn.Release() and
\* go on to BeginTx, which answers beginErr
AfterAcquire(call, conn, err, tx, beginErr) ==
    IF err # NilErr
    THEN Return([call EXCEPT !.acquires = @ + 1, !.acqErr = err],
                ErrorfW("acquiring connection: ", err))
    ELSE AfterBegin([call EXCEPT !.acquires = @ + 1, !.conn = conn,
                                 !.deferred = TRUE],
                    tx, beginErr)

\* the rollback failure reported in place of the original one
RollbackErrorf_Hide(err1, err) == ErrorfW("rolling back transaction: ", err1)

\* fmt.Errorf("rolling back transaction: %v (original error: %w)", err1, err)
RollbackErrorf(err1, err) ==
    [text |-> <<"rolling back transaction: ">> \o err1.text
               \o <<" (original error: ">> \o err.text \o <<")">>,
     is |-> err.is]

\* a commit failure that is dropped
CommitErrorf_Swallow(err) == NilErr

\* fmt.Errorf("committing transaction: %w", err)
CommitErrorf(err) == ErrorfW("committing transaction: ", err)

\* the failure branch without its return after a rollback that went well:
\* the commit below is reached too
AfterCallback_FallThrough(call, err, endErr) ==
    IF err # NilErr
    THEN LET c1 == [call EXCEPT !.fErr = err, !.endErr = endErr,
                                !.rollbacks = @ + 1]
         IN  IF endErr # NilErr
             THEN Return(c1, RollbackErrorf(endErr, err))
             ELSE Return([c1 EXCEPT !.commits = @ + 1], NilErr)
    ELSE LET c1 == [call EXCEPT !.fErr = err, !.endErr = endErr,
                                !.commits = @ + 1]
         IN  IF endErr # NilErr
             THEN Return(c1, CommitErrorf(endErr))
             ELSE Return(c1, NilErr)

\* f returned err; endErr is what tx.Rollback (err # nil) or tx.Commit
\* (err = nil) answers.
AfterCallback(call, err, endErr) ==
    IF err # NilErr
    THEN LET c1 == [call EXCEPT !.fErr = err, !.endErr = endErr,
                                !.rollbacks = @ + 1]
         IN  IF endErr # NilErr
             THEN Return(c1, RollbackErrorf(endErr, err))
             ELSE Return(c1, err)
    ELSE LET c1 == [call EXCEPT !.fErr = err, !.endErr = endErr,
                                !.commits = @ + 1]
         IN  IF endErr # NilErr
             THEN Return(c1, CommitErrorf(endErr))
             ELSE Return(c1, NilErr)

\* f(ctxWithTx) panics: InTx has no recover, so the statements after the call
\* of f are skipped and the panic leaves InTx through its one deferred call,
\* conn.Release()
AfterPanic(call) ==
    [call EXCEPT !.pc = "done", !.panicked = TRUE,
                 !.releases = IF call.deferred THEN @ + 1 ELSE @]

\* InTx has returned: of the invocation only the transaction handle and the
\* context that carries it remain, for the callback may have kept the
\* context it was given
Returned(call) ==
    [InTxEnter(call.ctx, 0) EXCEPT !.pc = "returned", !.tx = call.tx,
                                   !.ctxWithTx = call.ctxWithTx]

\* ------------------------------------------------------------------ facade
\* The record of one facade call at its return: the caller's context, the
\* context handed to the collaborator, where the operation went (0: the
\* pool), what the collaborator answered, what the caller got, whether the
\* handed context is cancelled when the method has returned (defer cancel()),
\* and for InTx the invocation as it returned.
NoCall == [InTxEnter(Background, 0) EXCEPT !.pc = "none"]

NoOp ==
    [op |-> "none", ctx |-> Background, handed |-> Background, target |-> 0,
     collabErr |-> NilErr, result |-> NilErr, cancelled |-> FALSE,
     call |-> NoCall, id |-> 0]

\* InTx, invocation i, returns as call
InTx(i, call) ==
    [op |-> "inTx", ctx |-> call.ctx, handed |-> call.handed, target |-> 0,
     collabErr |-> NilErr, result |-> call.result, cancelled |-> FALSE,
     call |-> call, id |-> i]

\* Get that takes every mapper error for "no rows"
Get_AnyErrNotFound(ctx, err) ==
    LET ctxWithTimeout == WithTimeout(ctx, queryTimeout)
        r == getInTx(ctxWithTimeout, err)
    IN  [op |-> "get", ctx |-> ctx, handed |-> ctxWithTimeout,
         target |-> r.target, collabErr |-> err,
         result |-> IF r.err # NilErr THEN ErrRecordsNotFound ELSE NilErr,
         cancelled |-> TRUE, call |-> NoCall, id |-> 0]

Get(ctx, err) ==
    LET ctxWithTimeout == WithTimeout(ctx, queryTimeout)
        r == getInTx(ctxWithTimeout, err)
    IN  [op |-> "get", ctx |-> ctx, handed |-> ctxWithTimeout,
         target |-> r.target, collabErr |-> err,
         result |-> IF r.err # NilErr
                    THEN IF NotFound(r.err) THEN ErrRecordsNotFound ELSE r.err
                    ELSE NilErr,
         cancelled |-> TRUE, call |-> NoCall, id |-> 0]

Select(ctx, err) ==
    LET ctxWithTimeout == WithTimeout(ctx, queryTimeout)
        r == selectInTx(ctxWithTimeout, err)
    IN  [op |-> "select", ctx |-> ctx, handed |-> ctxWithTimeout,
         target |-> r.target, collabErr |-> err,
         result |-> IF r.err # NilErr
                    THEN IF NotFound(r.err) THEN ErrRecordsNotFound ELSE r.err
                    ELSE NilErr,
         cancelled |-> TRUE, call |-> NoCall, id |-> 0]

Exec(ctx, err) ==
    LET ctxWithTimeout == WithTimeout(ctx, queryTimeout)
        r == execInTx(ctxWithTimeout, err)
    IN  [op |-> "exec", ctx |-> ctx, handed |-> ctxWithTimeout,
         target |-> r.target, collabErr |-> err, result |-> r.err,
         cancelled |-> TRUE, call |-> NoCall, id |-> 0]

Query(ctx, err) ==
    LET ctxWithTimeout == WithTimeout(ctx, queryTimeout)
        r == queryInTx(ctxWithTimeout, err)
    IN  [op |-> "query", ctx |-> ctx, handed |-> ctxWithTimeout,
         target |-> r.target, collabErr |-> err, result |-> r.err,
         cancelled |-> TRUE, call |-> NoCall, id |-> 0]

QueryRow(ctx, err) ==
    LET ctxWithTimeout == WithTimeout(ctx, queryTimeout)
        r == queryRowsInTx(ctxWithTimeout, err)
    IN  [op |-> "queryRow", ctx |-> ctx, handed |-> ctxWithTimeout,
         target |-> r.target, collabErr |-> err, result |-> r.err,
         cancelled |-> TRUE, call |-> NoCall, id |-> 0]

\* Ping goes to the pool with the caller's context as it is.
Ping(ctx, err) ==
    [op |-> "ping", ctx |-> ctx, handed |-> ctx, target |-> 0,
     collabErr |-> err, result |-> err, cancelled |-> FALSE,
     call |-> NoCall, id |-> 0]

\* New without the default
NewQueryTimeout_NoDefault(configured) == configured

\* New: the timeout the client keeps for a configured Config.QueryTimeout
NewQueryTimeout(configured) ==
    IF configured > 0 THEN configured ELSE DefaultTimeout

\* --------------------------------------------------------------------- New
\* The fields of Config that Config.Valid looks at: empty or set.
FieldValues == {"", "set"}

Configs ==
    [Host : FieldValues, Port : FieldValues, Name : FieldValues,
     User : FieldValues, Password : FieldValues]

\* Config.Valid(): the error for the first required field that is empty
Valid(c) ==
    IF c.Host = "" THEN NewError("'host' was not set")
    ELSE IF c.Port = "" THEN NewError("'port' was not set")
    ELSE IF c.Name = "" THEN NewError("'name' was not set")
    ELSE IF c.User = "" THEN NewError("'user' was not set")
    ELSE IF c.Password = "" THEN NewError("'password' was not set")
    ELSE NilErr

\* dbValues / setIfNotEmpty: the key=value pairs of the connection string;
\* a field that is empty leaves no pair
dbValues(cfg) ==
    {kv \in {<<"dbname", cfg.Name>>, <<"user", cfg.User>>,
             <<"host", cfg.Host>>, <<"port", cfg.Port>>,
             <<"password", cfg.Password>>} : kv[2] # ""}

\* dbDSN: the pairs joined; their order (a map's) does not matter to the parser
dbDSN(cfg) == dbValues(cfg)

ErrParse == NewError("cannot parse connection string")
ErrPoolCreate == NewError("cannot create pool")
ErrConnRefused == NewError("connection refused")
ErrScanAPI == NewError("invalid scan API option")

\* what pgxpool.ParseConfig, pgxpool.NewWithConfig, pool.Ping,
\* pgxscan.NewDBScanAPI and pgxscan.NewAPI can answer
ParseErrs == {NilErr, ErrParse}
PoolErrs == {NilErr, ErrPoolCreate}
PingErrs == {NilErr, ErrConnRefused, ErrDeadlineExceeded}
ScanAPIErrs == {NilErr, ErrScanAPI}

\* One invocation of New.  pc: where it stands ("parse", "pool", "ping",
\* "dbscan", "api", "returned"); dsn: the connection string it built; pool:
\* the pool it made ("none", "open", "closed"); client: whether it returned a
\* client; result: the error it returned.
NewEnter(cfg) ==
    [pc |-> "parse", cfg |-> cfg, dsn |-> dbDSN(cfg), pool |-> "none",
     client |-> FALSE, result |-> NilErr]

\* return nil, err
NewFails(call, err) == [call EXCEPT !.pc = "returned", !.result = err]

\* pgxConfig, err := pgxpool.ParseConfig(dsnPool)
AfterParseConfig(call, err) ==
    IF err # NilErr
    THEN NewFails(call, ErrorfW("failed to parse connection string: ", err))
    ELSE [call EXCEPT !.pc = "pool"]

\* pool, err := pgxpool.NewWithConfig(ctx, pgxConfig)
AfterNewWithConfig(call, err) ==
    IF err # NilErr
    THEN NewFails(call, ErrorfW("failed to create connection pool: ", err))
    ELSE [call EXCEPT !.pc = "ping", !.pool = "open"]

\* err := pool.Ping(ctx)
AfterPing(call, err) ==
    IF err # NilErr
    THEN NewFails(call, ErrorfW("ping to database connection: ", err))
    ELSE [call EXCEPT !.pc = "dbscan"]

\* dbScan, err := pgxscan.NewDBScanAPI(...)
AfterNewDBScanAPI(call, err) ==
    IF err # NilErr
    THEN NewFails(call, ErrorfW("pgxscan.NewDBScanAPI: ", err))
    ELSE [call EXCEPT !.pc = "api"]

\* pgxscanApi, err := pgxscan.NewAPI(dbScan); return &client{...}, nil
AfterNewAPI(call, err) ==
    IF err # NilErr
    THEN NewFails(call, ErrorfW("pgxscan.NewAPI: ", err))
    ELSE [call EXCEPT !.pc = "returned", !.client = TRUE]

\* client.Close(): c.dbPool.Close()
Close(call) == [call EXCEPT !.pool = "closed"]

\* the New that made the client the operations below are called on
Constructed ==
    [NewEnter([Host |-> "set", Port |-> "set", Name |-> "set",
               User |-> "set", Password |-> "set"])
        EXCEPT !.pc = "returned", !.pool = "open", !.client = TRUE]

Calls == 1..Len(calls)
Conns == DOMAIN connHolder
IdleConns == {k \in Conns : connHolder[k] = 0}

\* dbPool after invocation i went from old to new: an acquired connection
\* is held by i until conn.Release() gives it back
PoolAfter(i, old, new) ==
    [k \in Conns |->
        IF k = new.conn
        THEN IF new.releases > old.releases THEN 0 ELSE i
        ELSE connHolder[k]]

\* invocation i has an InTx call of its callback that has not returned
HasActiveChild(i) ==
    \E j \in Calls : calls[j].caller = i /\ calls[j].pc \in {"acquiring", "running"}

\* what is left in calls of invocation i after a step: its frame while it
\* runs, what remains of it when it has returned
Frame(call) == IF call.pc = "done" THEN Returned(call) ELSE call

\* what the step shows of invocation i: its return, when it returned
Observed(i, call) == IF call.pc = "done" THEN InTx(i, call) ELSE lastOp

\* who can call InTx: the program outside any callback (0), or a callback
\* that is running and not itself inside a call
Callers == {0} \cup {i \in Calls : calls[i].pc = "running" /\ ~HasActiveChild(i)}

\* the contexts a caller can pass: Background or a ctxWithTx some callback
\* was given, or a context derived from one of them
GivenCtxs == {Background} \cup {calls[i].ctxWithTx : i \in {j \in Calls : calls[j].tx # 0}}
CallerCtxs == {Derive(c, n) : c \in GivenCtxs, n \in 0..MaxDerive}

\* the transaction a data operation on context c goes to has ended: its InTx
\* has committed it or rolled it back
TxEnded(c) ==
    /\ txFromContext(c) \in Calls
    /\ calls[txFromContext(c)].pc # "running"

\* what the row source answers to a data operation on context c: a
\* transaction that has ended refuses it ("tx is closed")
Answers(c, errs) == IF TxEnded(c) THEN {ErrTxClosed} ELSE errs

\* ----------------------------------------------------------------- actions
Init ==
    /\ newCall = Constructed
    /\ config \in QueryTimeoutConfigs
    /\ queryTimeout = NewQueryTimeout(config)
    /\ calls = <<>>
    /\ connHolder = [k \in 1..PoolSize |-> 0]
    /\ lastOp = NoOp

GetOp ==
    /\ lastOp = NoOp
    /\ \E c \in CallerCtxs : \E e \in Answers(c, MapperErrs) : lastOp' = Get(c, e)
    /\ UNCHANGED <<newCall, config, queryTimeout, calls, connHolder>>

SelectOp ==
    /\ lastOp = NoOp
    /\ \E c \in CallerCtxs : \E e \in Answers(c, MapperErrs) : lastOp' = Select(c, e)
    /\ UNCHANGED <<newCall, config, queryTimeout, calls, connHolder>>

ExecOp ==
    /\ lastOp = NoOp
    /\ \E c \in CallerCtxs : \E e \in Answers(c, ExecErrs) : lastOp' = Exec(c, e)
    /\ UNCHANGED <<newCall, config, queryTimeout, calls, connHolder>>

QueryOp ==
    /\ lastOp = NoOp
    /\ \E c \in CallerCtxs : \E e \in Answers(c, ExecErrs) : lastOp' = Query(c, e)
    /\ UNCHANGED <<newCall, config, queryTimeout, calls, connHolder>>

QueryRowOp ==
    /\ lastOp = NoOp
    /\ \E c \in CallerCtxs : \E e \in Answers(c, ExecErrs) : lastOp' = QueryRow(c, e)
    /\ UNCHANGED <<newCall, config, queryTimeout, calls, connHolder>>

PingOp ==
    /\ lastOp = NoOp
    /\ \E c \in CallerCtxs, e \in ExecErrs : lastOp' = Ping(c, e)
    /\ UNCHANGED <<newCall, config, queryTimeout, calls, connHolder>>

\* the caller has taken the result of the call that returned last
OpReturn ==
    /\ lastOp # NoOp
    /\ lastOp' = NoOp
    /\ UNCHANGED <<newCall, config, queryTimeout, calls, connHolder>>

\* InTx is called and reaches dbPool.Acquire
InTxCall ==
    /\ Len(calls) < MaxCalls
    /\ \E c \in GivenCtxs, caller \in Callers :
          calls' = Append(calls, InTxEnter(c, caller))
    /\ UNCHANGED <<newCall, config, queryTimeout, connHolder, lastOp>>

\* Acquire hands out an idle connection; BeginTx succeeds or fails
AcquireOk ==
    \E i \in Calls, beginErr \in {NilErr} \cup BeginErrs :
       /\ calls[i].pc = "acquiring"
       /\ IdleConns # {}
       /\ LET k == CHOOSE k \in IdleConns : \A m \in IdleConns : k <= m
              new == AfterAcquire(calls[i], k, NilErr, i, beginErr)
          IN  /\ calls' = [calls EXCEPT ![i] = Frame(new)]
              /\ connHolder' = PoolAfter(i, calls[i], new)
              /\ lastOp' = Observed(i, new)
       /\ UNCHANGED <<newCall, config, queryTimeout>>

\* Acquire fails: the context is done or the pool is closed
AcquireFail ==
    \E i \in Calls, e \in AcquireErrs :
       /\ calls[i].pc = "acquiring"
       /\ LET new == AfterAcquire(calls[i], 0, e, 0, NilErr)
          IN  /\ calls' = [calls EXCEPT ![i] = Frame(new)]
              /\ connHolder' = PoolAfter(i, calls[i], new)
              /\ lastOp' = Observed(i, new)
       /\ UNCHANGED <<newCall, config, queryTimeout>>

\* what the callback of i can return as a failure: an error of its own, or
\* the error the InTx call it made has just returned
CallbackFailures(i) ==
    (CallbackErrs
       \cup (IF lastOp.op = "inTx" /\ lastOp.call.caller = i
             THEN {lastOp.result} ELSE {}))
    \ {NilErr}

CallbackFails ==
    \E i \in Calls :
       /\ calls[i].pc = "running"
       /\ ~HasActiveChild(i)
       /\ \E err \in CallbackFailures(i), err1 \in {NilErr} \cup RollbackErrs :
             LET new == AfterCallback(calls[i], err, err1)
             IN  /\ calls' = [calls EXCEPT ![i] = Frame(new)]
                 /\ connHolder' = PoolAfter(i, calls[i], new)
                 /\ lastOp' = Observed(i, new)
       /\ UNCHANGED <<newCall, config, queryTimeout>>

CallbackSucceeds ==
    \E i \in Calls :
       /\ calls[i].pc = "running"
       /\ ~HasActiveChild(i)
       /\ \E err \in {NilErr} \cup CommitErrs :
             LET new == AfterCallback(calls[i], NilErr, err)
             IN  /\ calls' = [calls EXCEPT ![i] = Frame(new)]
                 /\ connHolder' = PoolAfter(i, calls[i], new)
                 /\ lastOp' = Observed(i, new)
       /\ UNCHANGED <<newCall, config, queryTimeout>>

\* the callback panics; the panic goes on into the caller of InTx
CallbackPanics ==
    \E i \in Calls :
       /\ calls[i].pc = "running"
       /\ ~HasActiveChild(i)
       /\ LET new == AfterPanic(calls[i])
          IN  /\ calls' = [calls EXCEPT ![i] = Frame(new)]
              /\ connHolder' = PoolAfter(i, calls[i], new)
              /\ lastOp' = Observed(i, new)
       /\ UNCHANGED <<newCall, config, queryTimeout>>

Next ==
    \/ GetOp
    \/ SelectOp
    \/ ExecOp
    \/ QueryOp
    \/ QueryRowOp
    \/ PingOp
    \/ OpReturn
    \/ InTxCall
    \/ AcquireOk
    \/ AcquireFail
    \/ CallbackFails
    \/ CallbackSucceeds
    \/ CallbackPanics

Spec == Init /\ [][Next]_vars

\* ------------------------------------------------------- construction (New)
\* New is called with a configuration; the client does not exist yet
InitNew ==
    /\ \E cfg \in Configs : newCall = NewEnter(cfg)
    /\ config \in QueryTimeoutConfigs
    /\ queryTimeout = 0
    /\ calls = <<>>
    /\ connHolder = [k \in 1..PoolSize |-> 0]
    /\ lastOp = NoOp

NewParseConfig ==
    /\ newCall.pc = "parse"
    /\ \E e \in ParseErrs : newCall' = AfterParseConfig(newCall, e)
    /\ UNCHANGED <<config, queryTimeout, calls, connHolder, lastOp>>

NewPoolWithConfig ==
    /\ newCall.pc = "pool"
    /\ \E e \in PoolErrs : newCall' = AfterNewWithConfig(newCall, e)
    /\ UNCHANGED <<config, queryTimeout, calls, connHolder, lastOp>>

NewPing ==
    /\ newCall.pc = "ping"
    /\ \E e \in PingErrs : newCall' = AfterPing(newCall, e)
    /\ UNCHANGED <<config, queryTimeout, calls, connHolder, lastOp>>

NewDBScanAPI ==
    /\ newCall.pc = "dbscan"
    /\ \E e \in ScanAPIErrs : newCall' = AfterNewDBScanAPI(newCall, e)
    /\ UNCHANGED <<config, queryTimeout, calls, connHolder, lastOp>>

\* the last step of New: on success the client is returned with its timeout
NewAPI ==
    /\ newCall.pc = "api"
    /\ \E e \in ScanAPIErrs :
          /\ newCall' = AfterNewAPI(newCall, e)
          /\ queryTimeout' = IF e = NilErr THEN NewQueryTimeout(config)
                             ELSE queryTimeout
    /\ UNCHANGED <<config, calls, connHolder, lastOp>>

\* the owner of the client shuts it down
CloseOp ==
    /\ newCall.client
    /\ newCall.pool = "open"
    /\ newCall' = Close(newCall)
    /\ UNCHANGED <<config, queryTimeout, calls, connHolder, lastOp>>

NextNew ==
    \/ NewParseConfig
    \/ NewPoolWithConfig
    \/ NewPing
    \/ NewDBScanAPI
    \/ NewAPI
    \/ CloseOp

SpecNew == InitNew /\ [][NextNew]_vars

\* ------------------------------------------- InTx when Acquire cannot fail
\* The pool is open and no context InTx is called with is done while the
\* call waits in dbPool.Acquire (a context without a deadline never is):
\* Acquire does not fail, it waits until a connection is idle.  The pool has
\* any capacity from 1 to PoolSize (Config.PoolMaxConnections).
InitBlocking ==
    /\ newCall = Constructed
    /\ config \in QueryTimeoutConfigs
    /\ queryTimeout = NewQueryTimeout(config)
    /\ calls = <<>>
    /\ connHolder \in {[k \in 1..n |-> 0] : n \in 1..PoolSize}
    /\ lastOp = NoOp

NextBlocking ==
    \/ InTxCall
    \/ AcquireOk
    \/ CallbackFails
    \/ CallbackSucceeds
    \/ CallbackPanics
    \/ OpReturn

SpecBlocking == InitBlocking /\ [][NextBlocking]_vars

\* ------------------------------------------------------------------ claims
DataOps == {"get", "select", "exec", "query", "queryRow"}

\* context c is a, or derived from a at some depth
IsDerivedFrom(c, a) == Len(a) <= Len(c) /\ SubSeq(c, 1, Len(a)) = a

\* invocation i began a transaction (and gave ctxWithTx to its callback)
Begun(i) == calls[i].tx # 0

\* the message t holds the message part as a run of its own
Contains(t, part) ==
    \E k \in 0..(Len(t) - Len(part)) : SubSeq(t, k + 1, k + Len(part)) = part

\* the outcome an error of InTx stands for, by its outermost wrapping
Kind(err) ==
    IF err = NilErr THEN "Success"
    ELSE CASE err.text[1] = "acquiring connection: " -> "AcquisitionFailed"
           [] err.text[1] = "starting transaction: " -> "TransactionStartFailed"
           [] err.text[1] = "committing transaction: " -> "CommitFailed"
           [] err.text[1] = "rolling back transaction: " -> "RollbackFailed"
           [] OTHER -> "CallbackFailed"

\* the context handed to the collaborator is a child of the caller's context
\* bounded by the configured query timeout, or by the default
Bounded(o) ==
    /\ Len(o.handed) = Len(o.ctx) + 1
    /\ SubSeq(o.handed, 1, Len(o.ctx)) = o.ctx
    /\ o.handed[Len(o.handed)].timeout =
          (IF config > 0 THEN config ELSE DefaultTimeout)
    /\ o.handed[Len(o.handed)].timeout > 0

\* C1: an InTx call that entered its callback entered it once; while the
\* callback runs neither commit nor rollback has been attempted; when the
\* callback returned nil, InTx returns having called Commit exactly once and
\* Rollback never; when it returned an error, having called Rollback exactly
\* once and Commit never.  (A callback that panics returns neither.)
C1_CommitXorRollback ==
    /\ \A i \in Calls :
          calls[i].pc = "running" =>
             /\ calls[i].fCalls = 1
             /\ calls[i].commits = 0
             /\ calls[i].rollbacks = 0
    /\ (lastOp.op = "inTx" /\ lastOp.call.fCalls > 0
          /\ ~lastOp.call.panicked) =>
          /\ lastOp.call.fCalls = 1
          /\ IF lastOp.call.fErr = NilErr
             THEN lastOp.call.commits = 1 /\ lastOp.call.rollbacks = 0
             ELSE lastOp.call.rollbacks = 1 /\ lastOp.call.commits = 0

C1_Witness ==
    /\ lastOp.op = "inTx"
    /\ lastOp.call.fCalls = 1
    /\ lastOp.call.fErr = ErrApp
    /\ lastOp.call.rollbacks = 1
    /\ lastOp.call.commits = 0

\* C2: an InTx call whose Acquire succeeded has called Release exactly once
\* when it returns, on every exit path, and the pool no longer counts the
\* connection as held by it; a connection is held only by an invocation whose
\* callback is running, which has not released it.
C2_ReleasedExactlyOnce ==
    /\ (lastOp.op = "inTx" /\ lastOp.call.acquires = 1
          /\ lastOp.call.acqErr = NilErr) =>
          /\ lastOp.call.releases = 1
          /\ connHolder[lastOp.call.conn] # lastOp.id
    /\ \A k \in Conns :
          connHolder[k] # 0 => calls[connHolder[k]].pc = "running"
    /\ \A i \in Calls :
          calls[i].pc = "running" =>
             calls[i].releases = 0 /\ connHolder[calls[i].conn] = i

C2_Witness ==
    /\ lastOp.op = "inTx"
    /\ lastOp.call.fErr # NilErr
    /\ lastOp.call.rollbacks = 1
    /\ lastOp.call.endErr # NilErr
    /\ lastOp.call.releases = 1
    /\ connHolder[lastOp.call.conn] = 0

\* C3 as stated: a data operation whose context is derived, at any depth,
\* from the context some InTx gave its callback goes to the transaction of
\* that InTx.
C3_Original ==
    lastOp.op \in DataOps =>
       \A i \in Calls :
          (Begun(i) /\ IsDerivedFrom(lastOp.ctx, calls[i].ctxWithTx)) =>
             lastOp.target = calls[i].tx

\* C3 as amended: a data operation whose context is derived, at any depth
\* and through the per-call timeout derivation, from the context an InTx
\* gave its callback, with no context of a nested InTx in between, goes to
\* the transaction of that InTx and not to the pool.
C3_RoutesToNearestTx ==
    lastOp.op \in DataOps =>
       \A i \in Calls :
          (/\ Begun(i)
           /\ IsDerivedFrom(lastOp.ctx, calls[i].ctxWithTx)
           /\ ~ \E j \in Calls \ {i} :
                   /\ Begun(j)
                   /\ IsDerivedFrom(lastOp.ctx, calls[j].ctxWithTx)
                   /\ IsDerivedFrom(calls[j].ctxWithTx, calls[i].ctxWithTx))
          => /\ IsDerivedFrom(lastOp.handed, calls[i].ctxWithTx)
             /\ lastOp.target = calls[i].tx
             /\ lastOp.target # 0

C3_Witness ==
    /\ lastOp.op = "exec"
    /\ \E i, j \in Calls :
          /\ i # j
          /\ Begun(i) /\ Begun(j)
          /\ IsDerivedFrom(calls[j].ctxWithTx, calls[i].ctxWithTx)
          /\ lastOp.ctx = Derive(calls[i].ctxWithTx, 1)
          /\ lastOp.target = calls[i].tx

\* C4: a data operation whose context carries no transaction, on itself or
\* on any ancestor, goes to the pool: no transaction receives it.
C4_NoTxRoutesToPool ==
    (/\ lastOp.op \in DataOps
     /\ \A k \in 1..Len(lastOp.ctx) : lastOp.ctx[k].tx = 0)
    => lastOp.target = 0

C4_Witness ==
    /\ lastOp.op = "query"
    /\ lastOp.ctx = Derive(Background, 1)
    /\ lastOp.target = 0
    /\ \E i \in Calls : calls[i].pc = "running"

\* C5: when the callback failed and the rollback failed too, the error InTx
\* returns holds the message of the callback's error and the message of the
\* rollback error, and errors.Is still finds the callback's error in it.
C5_BothFailuresReported ==
    (/\ lastOp.op = "inTx"
     /\ lastOp.call.fErr # NilErr
     /\ lastOp.call.rollbacks > 0
     /\ lastOp.call.endErr # NilErr)
    => /\ lastOp.result # NilErr
       /\ Contains(lastOp.result.text, lastOp.call.fErr.text)
       /\ Contains(lastOp.result.text, lastOp.call.endErr.text)
       /\ lastOp.call.fErr.is \subseteq lastOp.result.is
       /\ Kind(lastOp.result) = "RollbackFailed"

C5_Witness ==
    /\ lastOp.op = "inTx"
    /\ lastOp.call.fErr = ErrApp
    /\ lastOp.call.rollbacks = 1
    /\ lastOp.call.endErr = ErrTxClosed
    /\ lastOp.result = RollbackErrorf(ErrTxClosed, ErrApp)

\* C6: when the callback returned nil and Commit failed, InTx returns an
\* error, not nil: the commit error wrapped as "committing transaction",
\* which is none of the acquisition, transaction start or callback errors.
C6_CommitFailedOutcome ==
    (/\ lastOp.op = "inTx"
     /\ lastOp.call.fCalls > 0
     /\ lastOp.call.fErr = NilErr
     /\ lastOp.call.endErr # NilErr)
    => /\ lastOp.result # NilErr
       /\ Kind(lastOp.result) = "CommitFailed"
       /\ Contains(lastOp.result.text, lastOp.call.endErr.text)
       /\ lastOp.call.endErr.is \subseteq lastOp.result.is
       /\ lastOp.result \notin CallbackErrs

C6_Witness ==
    /\ lastOp.op = "inTx"
    /\ lastOp.call.fCalls = 1
    /\ lastOp.call.fErr = NilErr
    /\ lastOp.call.commits = 1
    /\ lastOp.call.endErr = ErrCommitFailed
    /\ Kind(lastOp.result) = "CommitFailed"

\* C7: when Acquire fails, InTx returns the acquisition error and has called
\* neither BeginTx, the callback, Commit, Rollback nor Release.
C7_AcquisitionFailed ==
    (lastOp.op = "inTx" /\ lastOp.call.acqErr # NilErr)
    => /\ Kind(lastOp.result) = "AcquisitionFailed"
       /\ lastOp.call.acqErr.is \subseteq lastOp.result.is
       /\ lastOp.call.acquires = 1
       /\ lastOp.call.begins = 0
       /\ lastOp.call.tx = 0
       /\ lastOp.call.fCalls = 0
       /\ lastOp.call.commits = 0
       /\ lastOp.call.rollbacks = 0
       /\ lastOp.call.releases = 0

C7_Witness ==
    /\ lastOp.op = "inTx"
    /\ lastOp.call.acqErr = ErrClosedPool
    /\ Kind(lastOp.result) = "AcquisitionFailed"
    /\ lastOp.call.releases = 0

\* C8: when BeginTx fails on the acquired connection, InTx returns the
\* transaction start error, has released the connection once, and has called
\* neither the callback, Commit nor Rollback.
C8_TransactionStartFailed ==
    (lastOp.op = "inTx" /\ lastOp.call.beginErr # NilErr)
    => /\ Kind(lastOp.result) = "TransactionStartFailed"
       /\ lastOp.call.beginErr.is \subseteq lastOp.result.is
       /\ lastOp.call.acquires = 1
       /\ lastOp.call.releases = 1
       /\ connHolder[lastOp.call.conn] # lastOp.id
       /\ lastOp.call.tx = 0
       /\ lastOp.call.fCalls = 0
       /\ lastOp.call.commits = 0
       /\ lastOp.call.rollbacks = 0

C8_Witness ==
    /\ lastOp.op = "inTx"
    /\ lastOp.call.beginErr = ErrBeginFailed
    /\ Kind(lastOp.result) = "TransactionStartFailed"
    /\ lastOp.call.conn # 0
    /\ lastOp.call.releases = 1

\* C9: Get and Select return ErrRecordsNotFound exactly when the mapper's
\* error is a not-found one (pgxscan.NotFound); they return every other
\* mapper error as it is, and nil when the mapper returned nil.
C9_NotFoundTranslation ==
    lastOp.op \in {"get", "select"} =>
       /\ (lastOp.result = ErrRecordsNotFound) <=> NotFound(lastOp.collabErr)
       /\ ~NotFound(lastOp.collabErr) => lastOp.result = lastOp.collabErr
       /\ lastOp.collabErr = NilErr => lastOp.result = NilErr

C9_Witness ==
    /\ lastOp.op = "get"
    /\ lastOp.collabErr = ErrorfW("scanning one: ", ErrNoRows)
    /\ lastOp.result = ErrRecordsNotFound

\* C10 as stated: every facade call that takes a context (Get, Select, Exec,
\* Query, QueryRow, InTx, Ping) works under a child context bounded by the
\* query timeout.
C10_Original == lastOp.op # "none" => Bounded(lastOp)

\* C10 as amended: Get, Select, Exec, Query and QueryRow work under a child
\* of the caller's context bounded by the configured query timeout (the
\* default when it is zero or negative), with or without a transaction;
\* InTx and Ping hand the caller's context on as it is, and the context InTx
\* gives its callback adds the transaction and no timeout.
C10_DataOpsBounded ==
    /\ lastOp.op \in DataOps => Bounded(lastOp)
    /\ lastOp.op \in {"ping", "inTx"} => lastOp.handed = lastOp.ctx
    /\ (lastOp.op = "inTx" /\ lastOp.call.tx # 0) =>
          lastOp.call.ctxWithTx =
             Append(lastOp.ctx, [tx |-> lastOp.call.tx, timeout |-> 0])

C10_Witness ==
    /\ lastOp.op = "select"
    /\ config = 0
    /\ lastOp.target # 0
    /\ lastOp.handed[Len(lastOp.handed)].timeout = DefaultTimeout


\* C11: New creates a pool only for a configuration that passes Config.Valid:
\* whenever a pool has been made, no required field of the configuration is
\* empty.
C11_ValidatedBeforePool ==
    newCall.pool # "none" => Valid(newCall.cfg) = NilErr

\* a pool made for a configuration whose password is empty
C11_Witness ==
    /\ newCall.cfg.Password = ""
    /\ Valid(newCall.cfg) # NilErr
    /\ newCall.pool = "open"

\* errors.Is(err, context.DeadlineExceeded)
Deadline(err) == "context deadline exceeded" \in err.is

\* the context of the facade call o was done before the call completed: a
\* collaborator the call handed its context to answered with the context's
\* error
HitDeadline(o) ==
    IF o.op = "inTx"
    THEN \/ Deadline(o.call.acqErr)
         \/ Deadline(o.call.beginErr)
         \/ Deadline(o.call.fErr)
         \/ Deadline(o.call.endErr)
    ELSE Deadline(o.collabErr)

\* C12 as stated: a facade call (InTx included) whose context was done before
\* it completed returns an error that is the deadline error: not nil, not
\* ErrRecordsNotFound and not an error of another kind.
C12_Original ==
    (lastOp.op # "none" /\ HitDeadline(lastOp)) =>
       /\ lastOp.result # NilErr
       /\ lastOp.result # ErrRecordsNotFound
       /\ Deadline(lastOp.result)

\* C12 as amended: the same for Get, Select, Exec, Query, QueryRow and Ping,
\* and for InTx when Acquire, BeginTx, the callback or Commit failed on the
\* deadline (also when the rollback after the callback's deadline error
\* fails); when the callback failed with another error and only Rollback
\* failed on the deadline, InTx returns the callback's error with the
\* rollback's deadline error in the message only.
C12_DeadlineSurfaces ==
    /\ (lastOp.op \notin {"none", "inTx"} /\ HitDeadline(lastOp)) =>
          /\ lastOp.result # NilErr
          /\ lastOp.result # ErrRecordsNotFound
          /\ Deadline(lastOp.result)
    /\ (/\ lastOp.op = "inTx"
        /\ \/ Deadline(lastOp.call.acqErr)
           \/ Deadline(lastOp.call.beginErr)
           \/ Deadline(lastOp.call.fErr)
           \/ (lastOp.call.commits > 0 /\ Deadline(lastOp.call.endErr))) =>
          /\ lastOp.result # NilErr
          /\ Deadline(lastOp.result)
    /\ (/\ lastOp.op = "inTx"
        /\ lastOp.call.rollbacks > 0
        /\ ~Deadline(lastOp.call.fErr)
        /\ Deadline(lastOp.call.endErr)) =>
          /\ lastOp.result # NilErr
          /\ ~Deadline(lastOp.result)
          /\ lastOp.call.fErr.is \subseteq lastOp.result.is
          /\ Contains(lastOp.result.text, ErrDeadlineExceeded.text)

\* the callback failed on the deadline and the rollback, attempted with the
\* same context, failed too
C12_Witness ==
    /\ lastOp.op = "inTx"
    /\ lastOp.call.fErr = ErrDeadlineExceeded
    /\ lastOp.call.rollbacks = 1
    /\ lastOp.call.endErr = ErrDeadlineExceeded
    /\ Deadline(lastOp.result)

\* the callback of i called InTx, invocation j, with the context it was given
Nested(i, j) == i # j /\ Begun(i) /\ calls[j].ctx = calls[i].ctxWithTx

\* the contexts the caller derives from c without attaching a transaction
DerivedPlain(c) == {Derive(c, n) : n \in 0..MaxDerive}

\* C13: an InTx called by a callback with the callback's context acquires a
\* connection of its own and begins a transaction of its own; data operations
\* on the inner callback's context go to the inner transaction and not to the
\* outer one; when the inner call returns, the outer transaction has been
\* neither committed nor rolled back and still holds its connection; data
\* operations on the outer callback's context go to the outer transaction,
\* also after the inner call has returned.
C13_NestedIsSeparate ==
    /\ \A i, j \in Calls :
          (calls[j].caller = i /\ calls[j].pc = "running") =>
             /\ calls[i].pc = "running"
             /\ calls[j].acquires = 1
             /\ calls[j].begins = 1
             /\ calls[j].conn # calls[i].conn
             /\ calls[j].tx # calls[i].tx
             /\ connHolder[calls[i].conn] = i
             /\ connHolder[calls[j].conn] = j
    /\ (lastOp.op = "inTx" /\ lastOp.call.caller # 0) =>
          /\ calls[lastOp.call.caller].pc = "running"
          /\ calls[lastOp.call.caller].commits = 0
          /\ calls[lastOp.call.caller].rollbacks = 0
          /\ calls[lastOp.call.caller].releases = 0
          /\ connHolder[calls[lastOp.call.caller].conn] = lastOp.call.caller
    /\ lastOp.op \in DataOps =>
          \A i, j \in Calls :
             (Nested(i, j) /\ Begun(j)) =>
                /\ lastOp.ctx \in DerivedPlain(calls[j].ctxWithTx) =>
                      lastOp.target = calls[j].tx /\ lastOp.target # calls[i].tx
                /\ lastOp.ctx \in DerivedPlain(calls[i].ctxWithTx) =>
                      lastOp.target = calls[i].tx /\ lastOp.target # calls[j].tx

\* the inner call has returned, the outer callback still runs and issues an
\* operation on its own context
C13_Witness ==
    /\ lastOp.op = "exec"
    /\ \E i, j \in Calls :
          /\ Nested(i, j)
          /\ Begun(j)
          /\ calls[j].pc = "returned"
          /\ calls[i].pc = "running"
          /\ lastOp.ctx = calls[i].ctxWithTx
          /\ lastOp.target = calls[i].tx

\* C14: a data operation that goes to a transaction goes to one whose InTx
\* is still in its callback: never to a transaction that has been committed
\* or rolled back, also when the context the callback was given is kept and
\* used after InTx has returned.
C14_NoUseAfterEnd ==
    (lastOp.op \in DataOps /\ lastOp.target # 0) =>
       calls[lastOp.target].pc = "running"

\* Exec on a kept context reaches the transaction its InTx has finished
C14_Witness ==
    /\ lastOp.op = "exec"
    /\ lastOp.target # 0
    /\ calls[lastOp.target].pc = "returned"
    /\ lastOp.collabErr = ErrTxClosed

\* the transaction a lookup on context c gave before any InTx was called
\* with c: that of the last node of c that carries one, 0 when none does
LookupBefore(c) ==
    IF \A k \in 1..Len(c) : c[k].tx = 0 THEN 0
    ELSE LET last == CHOOSE k \in 1..Len(c) :
                        /\ c[k].tx # 0
                        /\ \A m \in (k + 1)..Len(c) : c[m].tx = 0
         IN  c[last].tx

\* C15: the context InTx gives its callback is a new child of the caller's
\* context; while the callback runs and after InTx has returned, a lookup on
\* the caller's context gives what it gave before the call, never the
\* transaction the call began, and a data operation on the caller's context
\* goes where it went before: to the pool when that context carries no
\* transaction.
C15_CallerContextUnchanged ==
    /\ \A i \in Calls :
          Begun(i) =>
             /\ Len(calls[i].ctxWithTx) = Len(calls[i].ctx) + 1
             /\ IsDerivedFrom(calls[i].ctxWithTx, calls[i].ctx)
             /\ txFromContext(calls[i].ctx) = LookupBefore(calls[i].ctx)
             /\ txFromContext(calls[i].ctx) # calls[i].tx
    /\ lastOp.op \in DataOps =>
          \A i \in Calls :
             (Begun(i) /\ lastOp.ctx = calls[i].ctx) =>
                /\ lastOp.target = LookupBefore(calls[i].ctx)
                /\ lastOp.target # calls[i].tx
                /\ LookupBefore(calls[i].ctx) = 0 => lastOp.target = 0

\* Get on the context InTx was called with, while the callback runs
C15_Witness ==
    /\ lastOp.op = "get"
    /\ lastOp.target = 0
    /\ \E i \in Calls :
          /\ calls[i].pc = "running"
          /\ calls[i].ctx = lastOp.ctx
          /\ calls[i].tx # 0

\* the invocations that hold a transaction: begun and still in their callback
InFlight == {i \in Calls : calls[i].pc = "running"}

\* C16: with several InTx invocations in flight, no two of them hold the
\* same connection or the same transaction, the pool counts each held
\* connection as held by the one invocation that acquired it, and a data
\* operation on a context the callback of one invocation was given (or the
\* caller derived from it) goes to the transaction of that invocation and to
\* no other invocation's.
C16_ExclusiveOwnership ==
    /\ \A i, j \in InFlight :
          i # j => calls[i].conn # calls[j].conn /\ calls[i].tx # calls[j].tx
    /\ \A i \in InFlight :
          calls[i].conn \in Conns /\ connHolder[calls[i].conn] = i
    /\ \A k \in Conns :
          Cardinality({i \in InFlight : calls[i].conn = k}) <= 1
    /\ lastOp.op \in DataOps =>
          \A i \in Calls :
             (Begun(i) /\ lastOp.ctx \in DerivedPlain(calls[i].ctxWithTx)) =>
                /\ lastOp.target = calls[i].tx
                /\ \A j \in Calls \ {i} : Begun(j) => lastOp.target # calls[j].tx

\* two invocations called side by side are both in their callback, and an
\* operation is issued on the context of the first
C16_Witness ==
    /\ lastOp.op = "select"
    /\ \E i, j \in InFlight :
          /\ i # j
          /\ calls[i].caller = 0
          /\ calls[j].caller = 0
          /\ calls[i].ctx = Background
          /\ calls[j].ctx = Background
          /\ lastOp.ctx = calls[i].ctxWithTx
          /\ lastOp.target = calls[i].tx

\* C17: when Query or QueryRow has returned a cursor or row accessor, the
\* context the statement was issued under has not been cancelled by the
\* facade: it is live when the caller reads first.
C17_CursorContextLive ==
    (lastOp.op \in {"query", "queryRow"} /\ lastOp.result = NilErr) =>
       ~lastOp.cancelled

\* Query has returned its cursor without an error, and the bounded context
\* it issued the statement under is already cancelled
C17_Witness ==
    /\ lastOp.op = "query"
    /\ lastOp.result = NilErr
    /\ lastOp.handed = WithTimeout(lastOp.ctx, queryTimeout)
    /\ lastOp.cancelled

\* C18: while the callback of an InTx runs its connection is not released,
\* and an InTx that began a transaction has released the connection only
\* after it called Commit or Rollback on that transaction, on every way out
\* of the call, a panic of the callback included.
C18_ReleaseAfterEnd ==
    /\ \A i \in Calls :
          calls[i].pc = "running" =>
             calls[i].releases = 0 /\ connHolder[calls[i].conn] = i
    /\ (lastOp.op = "inTx" /\ lastOp.call.tx # 0
          /\ lastOp.call.releases > 0) =>
          lastOp.call.commits + lastOp.call.rollbacks >= 1

\* the callback panicked: the connection is back in the pool and neither
\* Commit nor Rollback was called on the transaction
C18_Witness ==
    /\ lastOp.op = "inTx"
    /\ lastOp.call.panicked
    /\ lastOp.call.tx # 0
    /\ lastOp.call.releases = 1
    /\ lastOp.call.commits = 0
    /\ lastOp.call.rollbacks = 0
    /\ connHolder[lastOp.call.conn] = 0

\* C19: an InTx waiting in Acquire is never stuck for good: whenever some
\* invocation waits for a connection, a connection is idle or some callback
\* that holds one can return (it is not itself waiting for an InTx it
\* called), for every pool capacity from 1 on and contexts without a
\* deadline, nested calls included.
C19_AcquireNeverStuck ==
    (\E i \in Calls : calls[i].pc = "acquiring") =>
       \/ IdleConns # {}
       \/ \E j \in Calls : calls[j].pc = "running" /\ ~HasActiveChild(j)

\* every connection is held by a callback that waits for the InTx it called,
\* and that InTx waits for a connection
C19_Witness ==
    /\ IdleConns = {}
    /\ \E i, j \in Calls :
          /\ calls[i].pc = "running"
          /\ connHolder[calls[i].conn] = i
          /\ calls[j].caller = i
          /\ calls[j].pc = "acquiring"
    /\ \A i \in Calls : calls[i].pc = "running" => HasActiveChild(i)
    /\ ~ENABLED (AcquireOk \/ CallbackFails \/ CallbackSucceeds \/ CallbackPanics)

\* C20: when New has returned an error, no open pool is left: a pool that
\* was created before the failing step (the ping, NewDBScanAPI, NewAPI) has
\* been closed.
C20_NoPoolLeftOnError ==
    (newCall.pc = "returned" /\ newCall.result # NilErr) =>
       newCall.pool # "open"

\* New returned the ping error and no client; the pool it made is open
C20_Witness ==
    /\ newCall.pc = "returned"
    /\ newCall.result = ErrorfW("ping to database connection: ", ErrConnRefused)
    /\ ~newCall.client
    /\ newCall.pool = "open"

=============================================================================
